---- MODULE Spec2Model ----
(***************************************************************************)
(* Interest profile and recommendation ranking of the rss-reader.          *)
(*                                                                         *)
(* The profile (models.UserProfile) is the persistent state.  It is        *)
(* mutated by UserProfile.UpdateInterests and Storage.SaveProfile and read *)
(* by the two recommendation front-ends of the repository: the App of      *)
(* main.go and the procedural reader that precedes it.                     *)
(*                                                                         *)
(* Numbers.  A weight is a float64 in the code.  Here a weight is an       *)
(* integer count of units, One units making 1.0.  One is chosen so that    *)
(* every multiplication by 0.95 = 19/20 that can happen within the time    *)
(* horizon is exact; float64 rounding is therefore not modelled.           *)
(* Time is counted in whole days (24 hours), so decayPeriods is a natural  *)
(* number.                                                                 *)
(*                                                                         *)
(* Text.  A string is a sequence of one-character strings.                 *)
(*                                                                         *)
(* Specifications.  Spec is the session on the shared profile.  SpecApp    *)
(* is the App of main.go with its interest management.  SpecScenario is a  *)
(* reader with an empty profile and two articles.  SpecExtract and         *)
(* SpecSort call extractKeywords and App.sortRecommendations on their own, *)
(* on every input within the bounds.  SpecPaging is the paged view of      *)
(* App.showSearchResults and App.showRecommendations, one key at a time.   *)
(* SpecSave is Storage.SaveProfile step by step on a disk that may fail,   *)
(* SpecInterests the interest management of the earlier reader and         *)
(* SpecFeeds App.manageFeeds on the same disk.  SpecRefresh is             *)
(* App.refreshFeeds with one goroutine per feed.  SpecStored is a session  *)
(* on a profile loaded by Storage.LoadProfile, whatever its lastUpdated.   *)
(*                                                                         *)
(* Floats.  NaN is the one float64 that is not a number of units; the      *)
(* sums and comparisons that can meet it are FloatAdd and FloatLess.       *)
(***************************************************************************)
EXTENDS Integers, Sequences, FiniteSets

VARIABLES
    now,              \* the wall clock, in days
    Interests,        \* UserProfile.Interests: keyword -> weight
    ReadArticles,     \* UserProfile.ReadArticles: the set of links mapped to true
    LastUpdated,      \* UserProfile.LastUpdated
    items,            \* App.items: the merged batch of feed items
    view,             \* the screen the user is on
    scores,           \* the score App.showRecommendations computed for each item
    recommendations,  \* the list built by App.showRecommendations
    scored,           \* the list built by the earlier showRecommendations
    last,             \* the last call on the profile and the locals it computed
    calls,            \* the number of calls that wrote the profile so far
    keywords,         \* the slice returned by the call of extractKeywords(last.text)
    sorted,           \* the slice returned by the call of App.sortRecommendations
    results,          \* the slice given to App.showSearchResults
    currentPage,      \* the local currentPage of the paged view on screen
    selectedItem,     \* the local selectedItem of the paged view on screen
    input,            \* the bytes the last call of readKey read from the terminal
    files,            \* the files of the data directory: path -> content
    saving,           \* the call of Storage.SaveProfile that is under way
    saveFailed,       \* some call of SaveProfile or SaveFeeds has returned an error
    faults,           \* the number of I/O errors the disk may still produce
    feeds,            \* App.feeds
    refresh           \* the locals and goroutines of the last call of App.refreshFeeds

\* the values returned by the functions that are called on their own
returned == <<keywords, sorted>>

\* the paged view on screen
pager == <<results, currentPage, selectedItem, input>>

\* the data directory as Storage uses it
store == <<files, saving, saveFailed, faults>>

\* the state outside the profile, the items and the lists made of them
outside == <<pager, store, feeds, refresh>>

vars == <<now, Interests, ReadArticles, LastUpdated, items, view, scores, recommendations,
          scored, last, calls, returned, outside>>

----------------------------------------------------------------------------
(* Bounds of the model *)

\* days that may have passed between the stored LastUpdated and start-up
MaxPast == 1
\* days the session may last
MaxDay == 1
\* calls of a session that write the profile
MaxCalls == 2

\* pieces (words and spaces) of a text given to extractKeywords on its own
MaxPieces == 3
\* articles of a slice given to sortRecommendations on its own
MaxArticles == 3

MaxNow == MaxPast + MaxDay

----------------------------------------------------------------------------
(* Program constants *)

maxInterests == 100

\* the orders of sortRecommendations
SortByScore == 0
SortByDate == 1

\* decayFactor = 0.95 = DecayNum / DecayDen
DecayNum == 19
DecayDen == 20

RECURSIVE IntPow(_, _)
IntPow(b, e) == IF e = 0 THEN 1 ELSE b * IntPow(b, e - 1)

\* the weight 1.0
One == 10 * IntPow(DecayDen, MaxNow)

\* minWeight = 0.1
minWeight == One \div 10

\* the float64 NaN, which strconv.ParseFloat returns for the text "NaN"
NaN == -1

\* a + b on float64
FloatAdd(a, b) == IF a = NaN \/ b = NaN THEN NaN ELSE a + b

\* a < b on float64: false when either is NaN
FloatLess(a, b) == a # NaN /\ b # NaN /\ a < b

----------------------------------------------------------------------------
(* Strings *)

Space == " "
Tab == "\t"

\* unicode.IsSpace, on the characters of the model
IsSpace(c) == c \in {Space, Tab}

\* unicode.ToLower, on the characters of the model
LowerChar(c) ==
    CASE c = "K" -> "k"
      [] c = "R" -> "r"
      [] c = "W" -> "w"
      [] c = "G" -> "g"
      [] c = "C" -> "c"
      [] c = "T" -> "t"
      [] OTHER -> c

\* ToLower with every character left as it is
ToLower_Identity(s) == s

\* strings.ToLower
ToLower(s) == [i \in 1..Len(s) |-> LowerChar(s[i])]

\* the number of bytes of the UTF-8 encoding of a character
CharBytes(c) == IF c = "é" THEN 2 ELSE 1

\* len(word): the length of a Go string in bytes
RECURSIVE ByteLen(_)
ByteLen(s) == IF s = <<>> THEN 0 ELSE CharBytes(Head(s)) + ByteLen(Tail(s))

\* strings.Fields: the maximal runs of non-space characters, left to right
RECURSIVE FieldsFrom(_, _, _)
FieldsFrom(s, cur, acc) ==
    IF s = <<>>
    THEN IF cur = <<>> THEN acc ELSE Append(acc, cur)
    ELSE IF IsSpace(Head(s))
         THEN FieldsFrom(Tail(s), <<>>, IF cur = <<>> THEN acc ELSE Append(acc, cur))
         ELSE FieldsFrom(Tail(s), Append(cur, Head(s)), acc)

Fields(s) == FieldsFrom(s, <<>>, <<>>)

\* strings.Contains(s, sub)
Contains(s, sub) ==
    \E i \in 0..(Len(s) - Len(sub)) : SubSeq(s, i + 1, i + Len(sub)) = sub

commonWords ==
    { <<"t","h","e">>, <<"a","n","d">>, <<"f","o","r">>, <<"t","h","a","t">>,
      <<"w","i","t","h">>, <<"t","h","i","s">>, <<"f","r","o","m">>,
      <<"y","o","u","r">>, <<"h","a","v","e">>, <<"a","r","e">> }

isCommonWord(word) == word \in commonWords

KeepWord(word) == ByteLen(word) > 3 /\ ~isCommonWord(word)

\* the words of a sequence without the repetitions of an earlier word
RECURSIVE Dedup(_, _)
Dedup(words, acc) ==
    IF words = <<>>
    THEN acc
    ELSE Dedup(Tail(words),
               IF \E i \in 1..Len(acc) : acc[i] = Head(words)
               THEN acc
               ELSE Append(acc, Head(words)))

\* extractKeywords with each keyword returned once
extractKeywords_Dedup(text) == Dedup(SelectSeq(Fields(ToLower(text)), KeepWord), <<>>)

extractKeywords(text) == SelectSeq(Fields(ToLower(text)), KeepWord)

----------------------------------------------------------------------------
(* models.UserProfile *)

\* p.Interests[word]: the weight of a keyword, 0 when it is absent
WeightOf(m, word) == IF word \in DOMAIN m THEN m[word] ELSE 0

\* Increment with the weight assigned instead of added
Increment_Assign(m, word) ==
    [k \in DOMAIN m \cup {word} |-> IF k = word THEN One ELSE WeightOf(m, k)]

\* p.Interests[word] = p.Interests[word] + 1.0
Increment(m, word) ==
    [k \in DOMAIN m \cup {word} |-> WeightOf(m, k) + (IF k = word THEN One ELSE 0)]

\* the loop over words that updates the weights
RECURSIVE AddWords(_, _)
AddWords(m, words) ==
    IF words = <<>> THEN m ELSE AddWords(Increment(m, Head(words)), Tail(words))

\* DecayWeight with one period of decay whatever the time elapsed
DecayWeight_Once(weight, decayPeriods) ==
    IF decayPeriods = 0 THEN weight ELSE (weight * DecayNum) \div DecayDen

\* DecayWeight with a period of decay for the call itself
RECURSIVE DecayWeight_PerCall(_, _)
DecayWeight_PerCall(weight, decayPeriods) ==
    IF decayPeriods = 0
    THEN (weight * DecayNum) \div DecayDen
    ELSE DecayWeight_PerCall((weight * DecayNum) \div DecayDen, decayPeriods - 1)

\* weight * decayFactor
DecayStep(weight) == (weight * DecayNum) \div DecayDen

\* weight * math.Pow(decayFactor, decayPeriods), for decayPeriods a whole
\* number: a factor of 19/20 for each period, five periods at a time while
\* there are as many; a negative power of 19/20 is a power of 20/19
RECURSIVE DecayWeight(_, _)
DecayWeight(weight, decayPeriods) ==
    IF decayPeriods = 0
    THEN weight
    ELSE IF decayPeriods < 0
         THEN DecayWeight((weight * DecayDen) \div DecayNum, decayPeriods + 1)
         ELSE IF decayPeriods >= 5
              THEN DecayWeight(DecayStep(DecayStep(DecayStep(DecayStep(DecayStep(weight))))),
                               decayPeriods - 5)
              ELSE DecayWeight(DecayStep(weight), decayPeriods - 1)

\* the entries of m whose key is in keep
Restrict(m, keep) == [k \in keep |-> m[k]]

\* Decay without the delete
Decay_NoDelete(m, decayPeriods) ==
    [k \in DOMAIN m |-> DecayWeight(m[k], decayPeriods)]

\* Decay with the delete at minWeight as well as below it
Decay_NonStrict(m, decayPeriods) ==
    LET decayed == [k \in DOMAIN m |-> DecayWeight(m[k], decayPeriods)]
    IN  Restrict(decayed, {k \in DOMAIN m : ~(decayed[k] <= minWeight)})

\* the decay loop: every weight is multiplied, and deleted when below minWeight
Decay(m, decayPeriods) ==
    LET decayed == [k \in DOMAIN m |-> DecayWeight(m[k], decayPeriods)]
    IN  Restrict(decayed, {k \in DOMAIN m : ~(decayed[k] < minWeight)})

\* the weights of m appended to a slice and sorted by sort.Float64s: the
\* i-th element of the ascending order is the weight v with fewer than i
\* weights below it and at least i weights not above it
SortedWeights(m) ==
    [i \in 1..Cardinality(DOMAIN m) |->
        CHOOSE v \in {m[k] : k \in DOMAIN m} :
            /\ Cardinality({k \in DOMAIN m : m[k] < v}) < i
            /\ i <= Cardinality({k \in DOMAIN m : m[k] <= v})]

\* Threshold with the slice indexed one place further
Threshold_OffByOne(m) ==
    LET weights == SortedWeights(m)
    IN  weights[Cardinality(DOMAIN m) - maxInterests + 2]

\* threshold := weights[len(weights)-maxInterests], the slice indexed from 0
Threshold(m) ==
    LET weights == SortedWeights(m)
    IN  weights[Cardinality(DOMAIN m) - maxInterests + 1]

\* Trim with the keywords at the threshold deleted as well
Trim_DropTies(m) ==
    IF Cardinality(DOMAIN m) > maxInterests
    THEN LET threshold == Threshold(m)
         IN  Restrict(m, {k \in DOMAIN m : ~(m[k] <= threshold)})
    ELSE m

\* the trim to max interests
Trim(m) ==
    IF Cardinality(DOMAIN m) > maxInterests
    THEN LET threshold == Threshold(m)
         IN  Restrict(m, {k \in DOMAIN m : ~(m[k] < threshold)})
    ELSE m

\* MarkRead with a link that is already marked taken out
MarkRead_Toggle(read, link) ==
    IF link \in read THEN read \ {link} ELSE read \cup {link}

\* profile.ReadArticles[link] = true
MarkRead(read, link) == read \cup {link}

\* profile.ReadArticles[link], the test of a link
IsRead(read, link) == link \in read

\* time.Since(p.LastUpdated).Hours() / 24
DecayPeriods(lastUpdated, clock) == clock - lastUpdated

\* UpdatedInterests with the decay before the increments
UpdatedInterests_DecayFirst(m, text, decayPeriods) ==
    Trim(AddWords(Decay(m, decayPeriods), extractKeywords(text)))

\* the map that UpdateInterests leaves in p.Interests
UpdatedInterests(m, text, decayPeriods) ==
    Trim(Decay(AddWords(m, extractKeywords(text)), decayPeriods))

\* Stamp with the assignment left out
Stamp_Keep(lastUpdated, clock) == lastUpdated

\* p.LastUpdated = time.Now(), in UpdateInterests and in SaveProfile
Stamp(lastUpdated, clock) == clock

----------------------------------------------------------------------------
(* Scoring and ranking *)

\* item.Title + " " + item.Description
ItemText(item) == item.Title \o <<Space>> \o item.Description

\* MatchingWords with the keyword compared to the whole words of the text
MatchingWords_Token(m, text) ==
    {word \in DOMAIN m : \E i \in 1..Len(Fields(text)) : Fields(text)[i] = ToLower(word)}

\* the keywords of m for which strings.Contains(text, strings.ToLower(word)) holds
MatchingWords(m, text) == {word \in DOMAIN m : Contains(text, ToLower(word))}

\* score += weight, for the keywords of the set words
RECURSIVE AddWeights(_, _, _)
AddWeights(m, words, score) ==
    IF words = {}
    THEN score
    ELSE LET word == CHOOSE word \in words : TRUE
         IN  AddWeights(m, words \ {word}, FloatAdd(score, m[word]))

\* App.calculateInterestScore
calculateInterestScore(m, item) ==
    AddWeights(m, MatchingWords(m, ToLower(ItemText(item))), 0)

\* the scoring loop of the earlier showRecommendations, over the extracted words
RECURSIVE WordScoreLoop(_, _, _)
WordScoreLoop(m, words, score) ==
    IF words = <<>>
    THEN score
    ELSE WordScoreLoop(m, Tail(words),
                       IF Head(words) \in DOMAIN m THEN score + m[Head(words)] ELSE score)

wordScore(m, item) == WordScoreLoop(m, extractKeywords(ItemText(item)), 0)

ArticleScore(item, score) == [Item |-> item, Score |-> score]

\* Recommend with the test score >= 0
RECURSIVE Recommend_Unfiltered(_, _)
Recommend_Unfiltered(m, its) ==
    IF its = <<>>
    THEN <<>>
    ELSE LET score == calculateInterestScore(m, Head(its))
         IN  (IF score >= 0 THEN <<ArticleScore(Head(its), score)>> ELSE <<>>)
             \o Recommend_Unfiltered(m, Tail(its))

\* the loop of App.showRecommendations that appends the items with score > 0
RECURSIVE Recommend(_, _)
Recommend(m, its) ==
    IF its = <<>>
    THEN <<>>
    ELSE LET score == calculateInterestScore(m, Head(its))
         IN  (IF FloatLess(0, score) THEN <<ArticleScore(Head(its), score)>> ELSE <<>>)
             \o Recommend(m, Tail(its))

\* the loop of the earlier showRecommendations: read articles are skipped
RECURSIVE RecommendUnread(_, _, _)
RecommendUnread(m, read, its) ==
    IF its = <<>>
    THEN <<>>
    ELSE LET score == wordScore(m, Head(its))
         IN  (IF ~IsRead(read, Head(its).Link) /\ score > 0
              THEN <<ArticleScore(Head(its), score)>>
              ELSE <<>>)
             \o RecommendUnread(m, read, Tail(its))

\* the rearrangements of a sequence
Permutations(s) ==
    LET n == Len(s)
    IN  { [i \in 1..n |-> s[p[i]]] :
            p \in {q \in [1..n -> 1..n] : \A i, j \in 1..n : q[i] = q[j] => i = j} }

\* the less function of the sorts by score
ScoreLess(x, y) == x.Score > y.Score

\* the less function of the sort by date: sorted[i].Item.Published.After(...)
DateLess(x, y) == x.Item.Published > y.Item.Published

\* the less function that sortRecommendations gives to sort.Slice
Less(sortBy, x, y) == IF sortBy = SortByDate THEN DateLess(x, y) ELSE ScoreLess(x, y)

\* sort.Slice is not stable: it may leave the slice in any order in which no
\* element is less than an earlier one.  SortSlice builds these orders front
\* to back from the elements at the places `left`: the next element is any
\* one that no other remaining element is less than.
RECURSIVE SortSlice(_, _, _)
SortSlice(s, left, sortBy) ==
    IF left = {}
    THEN {<<>>}
    ELSE UNION { { <<s[i]>> \o t : t \in SortSlice(s, left \ {i}, sortBy) } :
                 i \in { k \in left : \A j \in left : ~Less(sortBy, s[j], s[k]) } }

\* sort.Slice with ScoreLess
SortByScoreResults(s) == SortSlice(s, 1..Len(s), SortByScore)

\* sort.Slice with DateLess
SortByDateResults(s) == SortSlice(s, 1..Len(s), SortByDate)

\* App.sortRecommendations: the slices that the sort of a copy may return
sortRecommendations(articles, sortBy) ==
    CASE sortBy = SortByScore -> SortByScoreResults(articles)
      [] sortBy = SortByDate -> SortByDateResults(articles)
      [] OTHER -> {articles}

----------------------------------------------------------------------------
(* The texts, items and stored profiles the model explores *)

kube == <<"k","u","b","e">>
rust == <<"r","u","s","t">>
wasm == <<"w","a","s","m">>
Rust == <<"R","u","s","t">>

TextEmpty == <<>>
\* "Kube rust  kube"
TextKube == <<"K","u","b","e"," ","r","u","s","t"," "," ","k","u","b","e">>
\* "the with go\tWasm"
TextWasm == <<"t","h","e"," ","w","i","t","h"," ","g","o","\t","W","a","s","m">>

Texts == {TextEmpty, TextKube, TextWasm}

\* the pieces of the texts given to extractKeywords on its own: a stop word
\* of three letters, a stop word of four letters with a capital, a word of
\* four letters with and without a capital, a word of two letters, a word
\* of three characters and four bytes, a space and a tab
InputPieces ==
    { <<"t","h","e">>, <<"W","i","t","h">>, <<"K","u","b","e">>, kube,
      <<"g","o">>, <<"n","é","e">>, <<Space>>, <<Tab>> }

\* the pieces of a sequence of pieces, joined
RECURSIVE Join(_)
Join(pieces) == IF pieces = <<>> THEN <<>> ELSE Head(pieces) \o Join(Tail(pieces))

\* the texts of at most MaxPieces pieces
InputTexts ==
    UNION { {Join(pieces) : pieces \in [1..n -> InputPieces]} : n \in 0..MaxPieces }

FeedItem(title, description, link, published) ==
    [Title |-> title, Description |-> description, Link |-> link,
     Published |-> published, FeedSource |-> "feed"]

\* "Kube" / "rust"
ItemA == FeedItem(<<"K","u","b","e">>, <<"r","u","s","t">>, "a", 2)
\* "kubectl" / ""
ItemB == FeedItem(<<"k","u","b","e","c","t","l">>, <<>>, "b", 1)
\* "Cook" / "pasta"
ItemC == FeedItem(<<"C","o","o","k">>, <<"p","a","s","t","a">>, "c", 2)

Batches == { <<ItemA, ItemB, ItemC>> }

\* the slices given to sortRecommendations on its own: at most MaxArticles
\* articles, each item at most once, of score 1.0 or 2.0
ArticleSlices ==
    LET scoredItems == {ArticleScore(item, score) :
                            item \in {ItemA, ItemB, ItemC}, score \in {One, 2 * One}}
    IN  UNION { { s \in [1..n -> scoredItems] :
                    \A i, j \in 1..n : s[i].Item = s[j].Item => i = j } :
                n \in 0..MaxArticles }

BulkLetters == <<"q","x","y","z">>

\* the i-th of the keywords of a large profile: four letters, none of them in a text
BulkKey(i) ==
    LET n == i - 1
    IN  << BulkLetters[((n \div 64) % 4) + 1], BulkLetters[((n \div 16) % 4) + 1],
           BulkLetters[((n \div 4) % 4) + 1],  BulkLetters[(n % 4) + 1] >>

BulkIndex(k) == CHOOSE i \in 1..maxInterests : BulkKey(i) = k

ProfileEmpty == <<>>
ProfileKube == [k \in {kube} |-> One]
ProfileTwo == [k \in {kube, Rust} |-> IF k = kube THEN One ELSE minWeight]
\* maxInterests keywords of weight 1.0
ProfileFullEqual == [k \in {BulkKey(i) : i \in 1..maxInterests} |-> One]
\* maxInterests keywords of the weights 0.15, 0.25, ..., 10.05: all distinct,
\* and distinct from the weights 1.0, 2.0, ... of newly added keywords
ProfileFullDistinct ==
    [k \in {BulkKey(i) : i \in 1..maxInterests} |->
        BulkIndex(k) * minWeight + (minWeight \div 2)]

SmallProfiles == {ProfileEmpty, ProfileKube, ProfileTwo}

FullProfiles == {ProfileFullEqual, ProfileFullDistinct}

StoredReadArticles == { {}, {"b"} }

\* the texts and items of the scenario of a new reader
kubernetes == <<"k","u","b","e","r","n","e","t","e","s">>
orchestration == <<"o","r","c","h","e","s","t","r","a","t","i","o","n">>
patterns == <<"p","a","t","t","e","r","n","s">>
\* "Kubernetes orchestration patterns"
TextKubernetes ==
    << "K","u","b","e","r","n","e","t","e","s"," ","o","r","c","h","e","s",
       "t","r","a","t","i","o","n"," ","p","a","t","t","e","r","n","s" >>

ScenarioTexts == Texts \cup {TextKubernetes}

\* "Kubernetes networking deep dive" / ""
ItemKubernetes ==
    FeedItem(<<"K","u","b","e","r","n","e","t","e","s"," ","n","e","t",
               "w","o","r","k","i","n","g"," ","d","e","e",
               "p"," ","d","i","v","e">>,
             <<>>, "k", 2)
\* "Cooking pasta" / ""
ItemCooking ==
    FeedItem(<<"C","o","o","k","i","n","g"," ","p","a","s","t","a">>, <<>>, "p", 1)

\* the interests typed at the prompt "Enter interest: "
TypedInterests == {wasm, Rust}

\* the results (weight, err) of strconv.ParseFloat for the weights typed:
\* no number, 2.0, a number above 10.0, and "NaN"
ParsedWeights ==
    { [weight |-> 0, err |-> TRUE],
      [weight |-> 2 * One, err |-> FALSE],
      [weight |-> 10 * One + 1, err |-> FALSE],
      [weight |-> NaN, err |-> FALSE] }

\* the profiles found in profile.json at start-up: Interests, ReadArticles
\* and the days since LastUpdated.  The full profiles are explored with no
\* read article and a LastUpdated of the day of the start.
StoredProfiles ==
    { [Interests |-> m, ReadArticles |-> read, age |-> age] :
        m \in SmallProfiles, read \in StoredReadArticles, age \in 0..MaxPast }
    \cup
    { [Interests |-> m, ReadArticles |-> {}, age |-> 0] : m \in FullProfiles }

----------------------------------------------------------------------------
(* The files of the data directory *)

\* path := filepath.Join(s.dataDir, "profile.json")
ProfilePath == "profile.json"

\* tempPath := path + ".tmp"
TempPath == "profile.json.tmp"

\* path := filepath.Join(s.dataDir, "feeds.txt")
FeedsPath == "feeds.txt"

Paths == {ProfilePath, TempPath, FeedsPath}

\* no file at the path
Absent == [kind |-> "absent"]

\* a file that was opened for writing and holds only a part of the data,
\* possibly none
Truncated == [kind |-> "truncated"]

\* the data json.MarshalIndent makes of a profile
ProfileData(ints, read, updated) ==
    [kind |-> "profile", Interests |-> ints, ReadArticles |-> read, LastUpdated |-> updated]

\* the content SaveFeeds makes of a list of feeds, as LoadFeeds reads it
FeedsData(list) == [kind |-> "feeds", list |-> list]

\* os.WriteFile, first half: the file is opened and truncated, or the open fails
OpenFile(fs, path) ==
    { [files |-> [fs EXCEPT ![path] = Truncated], err |-> FALSE],
      [files |-> fs, err |-> TRUE] }

\* os.WriteFile, second half: the data is written to the open file, or the
\* write fails part-way
WriteData(fs, path, data) ==
    { [files |-> [fs EXCEPT ![path] = data], err |-> FALSE],
      [files |-> [fs EXCEPT ![path] = Truncated], err |-> TRUE] }

\* os.WriteFile(path, data, 0644)
WriteFile(fs, path, data) ==
    LET opened == OpenFile(fs, path)
    IN  {o \in opened : o.err}
        \cup UNION { WriteData(o.files, path, data) : o \in {p \in opened : ~p.err} }

\* os.Rename(from, to): the file at `to` is replaced in one step, or nothing
\* happens
Rename(fs, from, to) ==
    { [files |-> IF from = to THEN fs ELSE [fs EXCEPT ![to] = fs[from], ![from] = Absent],
       err |-> FALSE],
      [files |-> fs, err |-> TRUE] }

\* SaveProfile that writes the data straight to profile.json
SaveTarget_Direct == ProfilePath

\* the path SaveProfile writes the data to
SaveTarget == TempPath

\* json.MarshalIndent returns an error for a weight that is NaN
MarshalFails(ints) == \E k \in DOMAIN ints : ints[k] = NaN

\* Storage.SaveProfile from the marshalling on, for a profile stamped with
\* `updated`: the files it may leave and whether it returns an error
SaveProfileRuns(fs, ints, read, updated) ==
    IF MarshalFails(ints)
    THEN { [files |-> fs, err |-> TRUE] }
    ELSE LET written == WriteFile(fs, SaveTarget, ProfileData(ints, read, updated))
         IN  {w \in written : w.err}
             \cup UNION { Rename(w.files, SaveTarget, ProfilePath) :
                            w \in {v \in written : ~v.err} }

\* the error of a run of SaveProfile came from the disk, not from the marshalling
IoError(run, ints) == run.err /\ ~MarshalFails(ints)

\* Storage.SaveFeeds: feeds.txt is written in place
SaveFeedsRuns(fs, list) == WriteFile(fs, FeedsPath, FeedsData(list))

\* the feeds of LoadFeeds when there is no feeds.txt, each URL as the part
\* before "://" and the part after it
defaultFeeds ==
    << [scheme |-> "https", rest |-> "lessnews.dev/rss.xml"],
       [scheme |-> "https", rest |-> "blog.golang.org/feed.atom"],
       [scheme |-> "https", rest |-> "news.ycombinator.com/rss"],
       [scheme |-> "https", rest |-> "dev.to/feed"] >>

----------------------------------------------------------------------------
(* The state machine *)

\* the record of a call that computed no locals
Op(name) ==
    [op |-> name, text |-> <<>>, decayPeriods |-> 0, before |-> <<>>,
     incremented |-> <<>>, item |-> 0, sortBy |-> SortByScore]

\* the record of a call of UpdateInterests(text)
UpdateOp(name, text) ==
    [Op(name) EXCEPT !.text = text,
                     !.decayPeriods = DecayPeriods(LastUpdated, now),
                     !.before = Interests,
                     !.incremented = AddWords(Interests, extractKeywords(text))]

\* no paged view is on screen and no key has been read
PagerInit ==
    /\ results = <<>>
    /\ currentPage = 0
    /\ selectedItem = 0
    /\ input = <<>>

\* no call of SaveProfile is under way
Idle == [pc |-> "idle", data |-> Absent, previous |-> Absent, err |-> FALSE]

\* the data directory at start-up: profile.json holds the profile LoadProfile
\* read, feeds.txt the feeds LoadFeeds read
StoreInit ==
    /\ files = [path \in Paths |->
                  CASE path = ProfilePath -> ProfileData(Interests, ReadArticles, LastUpdated)
                    [] path = FeedsPath -> FeedsData(feeds)
                    [] OTHER -> Absent]
    /\ saving = Idle
    /\ saveFailed = FALSE

\* refreshFeeds is not running
RefreshIdle == [pc |-> "idle", wg |-> 0, mu |-> 0, items |-> <<>>, workers |-> <<>>]

\* the state outside the profile when nothing has happened there, with a
\* disk that does not fail
OutsideInit ==
    /\ PagerInit
    /\ feeds = defaultFeeds
    /\ StoreInit
    /\ faults = 0
    /\ refresh = RefreshIdle

\* the call store.SaveProfile(profile) from the marshalling to the return,
\* for the profile (ints, read, updated): any of its runs
SaveProfileCall(ints, read, updated) ==
    /\ \E run \in SaveProfileRuns(files, ints, read, updated) :
          /\ IoError(run, ints) => faults > 0
          /\ faults' = IF IoError(run, ints) THEN faults - 1 ELSE faults
          /\ files' = run.files
          /\ saveFailed' = (saveFailed \/ run.err)
    /\ UNCHANGED <<pager, saving, feeds, refresh>>

\* the state after NewApp: the profile as LoadProfile read it from profile.json
Init ==
    /\ now = MaxPast
    /\ \E stored \in StoredProfiles :
          /\ Interests = stored.Interests
          /\ ReadArticles = stored.ReadArticles
          /\ LastUpdated = now - stored.age
    /\ items \in Batches
    /\ view = "menu"
    /\ scores = <<>>
    /\ recommendations = <<>>
    /\ scored = <<>>
    /\ last = Op("NewApp")
    /\ calls = 0
    /\ keywords = <<>>
    /\ sorted = <<>>
    /\ OutsideInit

\* a day passes
Tick ==
    /\ view = "menu"
    /\ now < MaxNow
    /\ now' = now + 1
    /\ UNCHANGED <<Interests, ReadArticles, LastUpdated, items, view, scores,
                   recommendations, scored, last, calls, returned, outside>>

\* UserProfile.UpdateInterests(text)
UpdateInterests(text) ==
    /\ view = "menu"
    /\ calls < MaxCalls
    /\ calls' = calls + 1
    /\ Interests' = UpdatedInterests(Interests, text, DecayPeriods(LastUpdated, now))
    /\ LastUpdated' = Stamp(LastUpdated, now)
    /\ last' = UpdateOp("UpdateInterests", text)
    /\ UNCHANGED <<now, ReadArticles, items, view, scores, recommendations, scored, returned, outside>>

\* Storage.SaveProfile, as called by saveChanges
SaveProfile ==
    /\ view = "menu"
    /\ calls < MaxCalls
    /\ calls' = calls + 1
    /\ LastUpdated' = Stamp(LastUpdated, now)
    /\ last' = Op("SaveProfile")
    /\ UNCHANGED <<now, Interests, ReadArticles, items, view, scores, recommendations,
                   scored, returned>>
    /\ SaveProfileCall(Interests, ReadArticles, LastUpdated')

\* the earlier displayArticle, answered "y": the profile is updated from the
\* article, the article is marked read and the profile is saved
DisplayArticleYes(i) ==
    /\ view = "menu"
    /\ calls < MaxCalls
    /\ calls' = calls + 1
    /\ Interests' = UpdatedInterests(Interests, ItemText(items[i]),
                                     DecayPeriods(LastUpdated, now))
    /\ ReadArticles' = MarkRead(ReadArticles, items[i].Link)
    /\ LastUpdated' = Stamp(Stamp(LastUpdated, now), now)
    /\ last' = [UpdateOp("displayArticle", ItemText(items[i])) EXCEPT !.item = i]
    /\ UNCHANGED <<now, items, view, scores, recommendations, scored, returned>>
    /\ SaveProfileCall(Interests', ReadArticles', LastUpdated')

\* App.showRecommendations, up to the sort by score.  It returns to the menu
\* when there is no interest or no recommendation.
ShowRecommendations ==
    /\ view = "menu"
    /\ IF Cardinality(DOMAIN Interests) = 0 \/ Recommend(Interests, items) = <<>>
       THEN UNCHANGED <<view, scores, recommendations>>
       ELSE /\ view' = "recommendations"
            /\ scores' = [i \in 1..Len(items) |-> calculateInterestScore(Interests, items[i])]
            /\ recommendations' \in SortByScoreResults(Recommend(Interests, items))
    /\ UNCHANGED <<now, Interests, ReadArticles, LastUpdated, items, scored, last, calls,
                   returned, outside>>

\* the earlier showRecommendations, up to the sort by score.  It returns to
\* the menu when there is no recommendation.
ShowRecommendationsUnread ==
    /\ view = "menu"
    /\ IF RecommendUnread(Interests, ReadArticles, items) = <<>>
       THEN UNCHANGED <<view, scored>>
       ELSE /\ view' = "recommendationsUnread"
            /\ scored' \in SortByScoreResults(RecommendUnread(Interests, ReadArticles, items))
    /\ UNCHANGED <<now, Interests, ReadArticles, LastUpdated, items, scores,
                   recommendations, last, calls, returned, outside>>

\* 'b' in the recommendations: back to the menu
Back ==
    /\ view # "menu"
    /\ view' = "menu"
    /\ scores' = <<>>
    /\ recommendations' = <<>>
    /\ scored' = <<>>
    /\ UNCHANGED <<now, Interests, ReadArticles, LastUpdated, items, last, calls, returned, outside>>

Next ==
    \/ Tick
    \/ \E text \in Texts : UpdateInterests(text)
    \/ SaveProfile
    \/ \E i \in 1..Len(items) : DisplayArticleYes(i)
    \/ ShowRecommendations
    \/ ShowRecommendationsUnread
    \/ Back

Spec == Init /\ [][Next]_vars

----------------------------------------------------------------------------
(* The App of main.go *)

\* err != nil || weight < 0.1 || weight > 10.0
InvalidWeight(parsed) ==
    parsed.err \/ FloatLess(parsed.weight, minWeight) \/ FloatLess(10 * One, parsed.weight)

\* the state after NewApp, for the profiles of few keywords
InitApp ==
    /\ now = MaxPast
    /\ \E stored \in StoredProfiles :
          /\ stored.Interests \in SmallProfiles
          /\ Interests = stored.Interests
          /\ ReadArticles = stored.ReadArticles
          /\ LastUpdated = now - stored.age
    /\ items \in Batches
    /\ view = "menu"
    /\ scores = <<>>
    /\ recommendations = <<>>
    /\ scored = <<>>
    /\ last = Op("NewApp")
    /\ calls = 0
    /\ keywords = <<>>
    /\ sorted = <<>>
    /\ OutsideInit

\* App.manageInterests, command "add": a weight that is no number or out
\* of range is replaced by 1.0, the interest is set and the profile saved
ManageInterestsAdd(interest, parsed) ==
    /\ view = "menu"
    /\ calls < MaxCalls
    /\ calls' = calls + 1
    /\ interest # <<>>
    /\ LET weight == IF InvalidWeight(parsed) THEN One ELSE parsed.weight
       IN  Interests' = [k \in DOMAIN Interests \cup {interest} |->
                            IF k = interest THEN weight ELSE Interests[k]]
    /\ LastUpdated' = Stamp(LastUpdated, now)
    /\ last' = Op("manageInterests.add")
    /\ UNCHANGED <<now, ReadArticles, items, view, scores, recommendations, scored, returned>>
    /\ SaveProfileCall(Interests', ReadArticles, LastUpdated')

\* App.manageInterests, command "score": the weight of a listed interest
\* is set and the profile saved; nothing happens for a weight that is no
\* number or out of range
ManageInterestsScore(interest, parsed) ==
    /\ view = "menu"
    /\ calls < MaxCalls
    /\ interest \in DOMAIN Interests
    /\ ~InvalidWeight(parsed)
    /\ calls' = calls + 1
    /\ Interests' = [Interests EXCEPT ![interest] = parsed.weight]
    /\ LastUpdated' = Stamp(LastUpdated, now)
    /\ last' = Op("manageInterests.score")
    /\ UNCHANGED <<now, ReadArticles, items, view, scores, recommendations, scored, returned>>
    /\ SaveProfileCall(Interests', ReadArticles, LastUpdated')

\* App.manageInterests, command "remove", confirmed: the interest is
\* deleted and the profile saved
ManageInterestsRemove(interest) ==
    /\ view = "menu"
    /\ calls < MaxCalls
    /\ interest \in DOMAIN Interests
    /\ calls' = calls + 1
    /\ Interests' = Restrict(Interests, DOMAIN Interests \ {interest})
    /\ LastUpdated' = Stamp(LastUpdated, now)
    /\ last' = Op("manageInterests.remove")
    /\ UNCHANGED <<now, ReadArticles, items, view, scores, recommendations, scored, returned>>
    /\ SaveProfileCall(Interests', ReadArticles, LastUpdated')

\* App.displayArticle, answered "y": the function returns true and the
\* next article is shown; the profile is left as it is
AppDisplayArticleYes(i) ==
    /\ view = "menu"
    /\ last' = [Op("App.displayArticle") EXCEPT !.item = i]
    /\ UNCHANGED <<now, Interests, ReadArticles, LastUpdated, items, view, scores,
                   recommendations, scored, calls, returned, outside>>

NextApp ==
    \/ Tick
    \/ \E interest \in TypedInterests, parsed \in ParsedWeights :
          ManageInterestsAdd(interest, parsed)
    \/ \E interest \in DOMAIN Interests, parsed \in ParsedWeights :
          ManageInterestsScore(interest, parsed)
    \/ \E interest \in DOMAIN Interests : ManageInterestsRemove(interest)
    \/ \E i \in 1..Len(items) : AppDisplayArticleYes(i)
    \/ ShowRecommendations
    \/ Back

SpecApp == InitApp /\ [][NextApp]_vars

----------------------------------------------------------------------------
(* A reader with an empty profile and two articles *)

\* an empty profile, created now or stored on an earlier day, and the batch
\* of the two articles
InitScenario ==
    /\ now = MaxPast
    /\ Interests = ProfileEmpty
    /\ ReadArticles = {}
    /\ \E age \in 0..MaxPast : LastUpdated = now - age
    /\ items = <<ItemKubernetes, ItemCooking>>
    /\ view = "menu"
    /\ scores = <<>>
    /\ recommendations = <<>>
    /\ scored = <<>>
    /\ last = Op("NewApp")
    /\ calls = 0
    /\ keywords = <<>>
    /\ sorted = <<>>
    /\ OutsideInit

NextScenario ==
    \/ Tick
    \/ \E text \in ScenarioTexts : UpdateInterests(text)
    \/ ShowRecommendations
    \/ Back

SpecScenario == InitScenario /\ [][NextScenario]_vars

----------------------------------------------------------------------------
(* extractKeywords, called on its own *)

\* a new profile, no item, and a text that is about to be given to extractKeywords
InitExtract ==
    /\ now = MaxPast
    /\ Interests = ProfileEmpty
    /\ ReadArticles = {}
    /\ LastUpdated = now
    /\ items = <<>>
    /\ view = "menu"
    /\ scores = <<>>
    /\ recommendations = <<>>
    /\ scored = <<>>
    /\ \E text \in InputTexts : last = [Op("text") EXCEPT !.text = text]
    /\ calls = 0
    /\ keywords = <<>>
    /\ sorted = <<>>
    /\ OutsideInit

\* the call extractKeywords(last.text)
ExtractKeywords ==
    /\ last.op = "text"
    /\ last' = [last EXCEPT !.op = "extractKeywords"]
    /\ keywords' = extractKeywords(last.text)
    /\ UNCHANGED <<now, Interests, ReadArticles, LastUpdated, items, view, scores,
                   recommendations, scored, calls, sorted, outside>>

NextExtract == ExtractKeywords

SpecExtract == InitExtract /\ [][NextExtract]_vars

----------------------------------------------------------------------------
(* App.sortRecommendations, called on its own *)

\* the recommendations screen with a slice of recommendations
InitSort ==
    /\ now = MaxPast
    /\ Interests = ProfileEmpty
    /\ ReadArticles = {}
    /\ LastUpdated = now
    /\ items = <<ItemA, ItemB, ItemC>>
    /\ view = "recommendations"
    /\ scores = <<>>
    /\ recommendations \in ArticleSlices
    /\ scored = <<>>
    /\ last = Op("showRecommendations")
    /\ calls = 0
    /\ keywords = <<>>
    /\ sorted = <<>>
    /\ OutsideInit

\* the call a.sortRecommendations(recommendations, sortBy)
SortRecommendations(sortBy) ==
    /\ last.op = "showRecommendations"
    /\ last' = [Op("sortRecommendations") EXCEPT !.sortBy = sortBy]
    /\ sorted' \in sortRecommendations(recommendations, sortBy)
    /\ UNCHANGED <<now, Interests, ReadArticles, LastUpdated, items, view, scores,
                   recommendations, scored, calls, keywords, outside>>

NextSort == \E sortBy \in {SortByScore, SortByDate} : SortRecommendations(sortBy)

SpecSort == InitSort /\ [][NextSort]_vars

----------------------------------------------------------------------------
(* The paged views of the App: search results and recommendations *)

\* the most results or recommendations a paged view is opened with
MaxResults == 21

\* the local itemsPerPage of showSearchResults and showRecommendations
itemsPerPage == 10

\* the bytes of the keys the views act on
Ascii ==
    [esc |-> 27, bracket |-> 91, enter |-> 13, A |-> 65, B |-> 66, C |-> 67, D |-> 68,
     b |-> 98, h |-> 104, j |-> 106, k |-> 107, l |-> 108, n |-> 110, o |-> 111,
     p |-> 112, s |-> 115, v |-> 118, x |-> 120]

\* what the terminal sends for the arrow keys
ArrowUp == <<Ascii.esc, Ascii.bracket, Ascii.A>>
ArrowDown == <<Ascii.esc, Ascii.bracket, Ascii.B>>
ArrowRight == <<Ascii.esc, Ascii.bracket, Ascii.C>>
ArrowLeft == <<Ascii.esc, Ascii.bracket, Ascii.D>>

\* the reads of os.Stdin that readKey may get: an arrow key, a single key,
\* or the first two bytes of a sequence
TerminalInputs ==
    {ArrowUp, ArrowDown, ArrowRight, ArrowLeft, <<Ascii.esc, Ascii.bracket>>}
    \cup { <<Ascii[c]>> : c \in DOMAIN Ascii \ {"bracket"} }

\* readKey: keyPress.key for the bytes read, 0 for the empty keyPress
readKey(buf) ==
    IF Len(buf) = 3 /\ buf[1] = 27 /\ buf[3] \in {65, 66, 67, 68}
    THEN CASE buf[3] = 65 -> Ascii.k
           [] buf[3] = 66 -> Ascii.j
           [] buf[3] = 67 -> Ascii.l
           [] buf[3] = 68 -> Ascii.h
    ELSE IF Len(buf) = 1 THEN buf[1] ELSE 0

Min(a, b) == IF a < b THEN a ELSE b

\* totalPages := (len + itemsPerPage - 1) / itemsPerPage
TotalPages(n) == (n + itemsPerPage - 1) \div itemsPerPage

\* start := currentPage * itemsPerPage
PageStart(page) == page * itemsPerPage

\* end := min(start+itemsPerPage, len)
PageEnd(page, n) == Min(PageStart(page) + itemsPerPage, n)

\* the i-th result of a search: the later in the list, the newer
PagedItem(i) == FeedItem(<<"K","u","b","e">>, <<>>, i, i)

\* the recommendations of a profile for such items, as the sort by score of
\* showRecommendations left them: the later in the list, the lower the score
PagedArticles(n) == [i \in 1..n |-> ArticleScore(PagedItem(i), (MaxResults + 1 - i) * One)]

\* a paged view has just been drawn for the first time
InitPaging ==
    /\ now = MaxPast
    /\ Interests = ProfileKube
    /\ ReadArticles = {}
    /\ LastUpdated = now
    /\ scores = <<>>
    /\ scored = <<>>
    /\ calls = 0
    /\ keywords = <<>>
    /\ currentPage = 0
    /\ selectedItem = 0
    /\ input = <<>>
    /\ feeds = defaultFeeds
    /\ StoreInit
    /\ faults = 0
    /\ refresh = RefreshIdle
    /\ \E n \in 1..MaxResults :
          /\ items = [i \in 1..n |-> PagedItem(i)]
          /\ \/ /\ view = "searchResults"
                /\ last = Op("searchArticles")
                /\ results = items
                /\ recommendations = <<>>
                /\ sorted = <<>>
             \/ /\ view = "recommendations"
                /\ last = Op("showRecommendations")
                /\ results = <<>>
                /\ recommendations = PagedArticles(n)
                /\ sorted \in sortRecommendations(recommendations, SortByScore)

\* one turn of the loop of App.showSearchResults: a key is read and acted on
SearchResultsKey(buf) ==
    /\ view = "searchResults"
    /\ input' = buf
    /\ LET key == readKey(buf)
           totalPages == TotalPages(Len(results))
           start == PageStart(currentPage)
           end == PageEnd(currentPage, Len(results))
       IN  /\ view' = IF key = Ascii.b THEN "menu" ELSE view
           /\ currentPage' =
                 CASE key \in {Ascii.l, 67} /\ currentPage < totalPages - 1 -> currentPage + 1
                   [] key = 68 /\ currentPage > 0 -> currentPage - 1
                   [] OTHER -> currentPage
           /\ selectedItem' =
                 CASE key \in {Ascii.j, 66}
                        /\ selectedItem < Min(itemsPerPage - 1, end - start - 1) ->
                            selectedItem + 1
                   [] key \in {Ascii.k, 65} /\ selectedItem > 0 -> selectedItem - 1
                   [] key \in {Ascii.l, 67} /\ currentPage < totalPages - 1 -> 0
                   [] key = 68 /\ currentPage > 0 -> 0
                   [] OTHER -> selectedItem
    /\ UNCHANGED <<now, Interests, ReadArticles, LastUpdated, items, scores, recommendations,
                   scored, last, calls, returned, results, store, feeds, refresh>>

\* one turn of the loop of App.showRecommendations: a key is read and acted
\* on, and unless it was 'b' the list is sorted and drawn again
RecommendationsKey(buf) ==
    /\ view = "recommendations"
    /\ input' = buf
    /\ LET key == readKey(buf)
           totalPages == TotalPages(Len(sorted))
           start == PageStart(currentPage)
           end == PageEnd(currentPage, Len(sorted))
       IN  /\ view' = IF key = Ascii.b THEN "menu" ELSE view
           /\ currentPage' =
                 CASE key \in {Ascii.l, 67, Ascii.n} /\ currentPage < totalPages - 1 ->
                        currentPage + 1
                   [] key \in {68, Ascii.p} /\ currentPage > 0 -> currentPage - 1
                   [] key = Ascii.s -> IF currentPage = 0 THEN totalPages - 1 ELSE 0
                   [] OTHER -> currentPage
           /\ selectedItem' =
                 CASE key \in {Ascii.j, 66}
                        /\ selectedItem < Min(itemsPerPage - 1, end - start - 1) ->
                            selectedItem + 1
                   [] key \in {Ascii.k, 65} /\ selectedItem > 0 -> selectedItem - 1
                   [] key \in {Ascii.l, 67, Ascii.n} /\ currentPage < totalPages - 1 -> 0
                   [] key \in {68, Ascii.p} /\ currentPage > 0 -> 0
                   [] OTHER -> selectedItem
           /\ sorted' \in IF key = Ascii.b
                          THEN {sorted}
                          ELSE sortRecommendations(recommendations, SortByScore)
    /\ UNCHANGED <<now, Interests, ReadArticles, LastUpdated, items, scores, recommendations,
                   scored, last, calls, keywords, results, store, feeds, refresh>>

NextPaging ==
    \/ \E buf \in TerminalInputs : SearchResultsKey(buf)
    \/ \E buf \in TerminalInputs : RecommendationsKey(buf)

SpecPaging == InitPaging /\ [][NextPaging]_vars

----------------------------------------------------------------------------
(* Storage.SaveProfile step by step, as called by manageInterests *)

\* the I/O errors the disk may produce in a session
MaxFaults == 1

\* the state after NewApp, for the profiles of few keywords, with a disk that
\* may fail
InitSave ==
    /\ now = MaxPast
    /\ \E stored \in StoredProfiles :
          /\ stored.Interests \in SmallProfiles
          /\ Interests = stored.Interests
          /\ ReadArticles = stored.ReadArticles
          /\ LastUpdated = now - stored.age
    /\ items \in Batches
    /\ view = "menu"
    /\ scores = <<>>
    /\ recommendations = <<>>
    /\ scored = <<>>
    /\ last = Op("NewApp")
    /\ calls = 0
    /\ keywords = <<>>
    /\ sorted = <<>>
    /\ PagerInit
    /\ feeds = defaultFeeds
    /\ StoreInit
    /\ faults \in 0..MaxFaults
    /\ refresh = RefreshIdle

\* the call of SaveProfile has returned err
Returned(err) == [saving EXCEPT !.pc = "returned", !.err = err]

\* App.manageInterests, command "add", up to the marshalling in SaveProfile:
\* the interest is set, LastUpdated is stamped and the profile marshalled
ManageInterestsAddEnter(interest, parsed) ==
    /\ view = "menu"
    /\ saving.pc = "idle"
    /\ calls < MaxCalls
    /\ calls' = calls + 1
    /\ interest # <<>>
    /\ LET weight == IF InvalidWeight(parsed) THEN One ELSE parsed.weight
       IN  Interests' = [k \in DOMAIN Interests \cup {interest} |->
                            IF k = interest THEN weight ELSE Interests[k]]
    /\ LastUpdated' = Stamp(LastUpdated, now)
    /\ last' = Op("manageInterests.add")
    /\ saving' = IF MarshalFails(Interests')
                 THEN [pc |-> "returned", data |-> Absent,
                       previous |-> files[ProfilePath], err |-> TRUE]
                 ELSE [pc |-> "open",
                       data |-> ProfileData(Interests', ReadArticles, LastUpdated'),
                       previous |-> files[ProfilePath], err |-> FALSE]
    /\ UNCHANGED <<now, ReadArticles, items, view, scores, recommendations, scored, returned,
                   pager, files, saveFailed, faults, feeds, refresh>>

\* a step of SaveProfile on the files: `runs` are the ways it may go, and
\* after an error SaveProfile returns it, else it goes on at `pc`
SaveProfileStep(runs, pc) ==
    /\ \E run \in runs :
          /\ run.err => faults > 0
          /\ faults' = IF run.err THEN faults - 1 ELSE faults
          /\ files' = run.files
          /\ saving' = IF run.err THEN Returned(TRUE) ELSE [saving EXCEPT !.pc = pc]
    /\ UNCHANGED <<now, Interests, ReadArticles, LastUpdated, items, view, scores,
                   recommendations, scored, last, calls, returned, pager, saveFailed, feeds, refresh>>

\* os.WriteFile in SaveProfile opens the file
SaveProfileOpen ==
    /\ saving.pc = "open"
    /\ SaveProfileStep(OpenFile(files, SaveTarget), "write")

\* os.WriteFile in SaveProfile writes the data
SaveProfileWrite ==
    /\ saving.pc = "write"
    /\ SaveProfileStep(WriteData(files, SaveTarget, saving.data), "rename")

\* os.Rename in SaveProfile; after it SaveProfile returns nil
SaveProfileRename ==
    /\ saving.pc = "rename"
    /\ SaveProfileStep(Rename(files, SaveTarget, ProfilePath), "returned")

\* manageInterests reports the outcome and prompts again
SaveProfileReturn ==
    /\ saving.pc = "returned"
    /\ saving' = Idle
    /\ saveFailed' = (saveFailed \/ saving.err)
    /\ UNCHANGED <<now, Interests, ReadArticles, LastUpdated, items, view, scores,
                   recommendations, scored, last, calls, returned, pager, files, faults,
                   feeds, refresh>>

NextSave ==
    \/ saving.pc = "idle" /\ Tick
    \/ \E interest \in TypedInterests, parsed \in ParsedWeights :
          ManageInterestsAddEnter(interest, parsed)
    \/ SaveProfileOpen
    \/ SaveProfileWrite
    \/ SaveProfileRename
    \/ SaveProfileReturn

SpecSave == InitSave /\ [][NextSave]_vars

----------------------------------------------------------------------------
(* The interest menu of the earlier reader: showInterests *)

\* weight = math.Max(0.1, math.Min(5.0, weight)); both return NaN for NaN
Clamp(weight) ==
    IF weight = NaN
    THEN NaN
    ELSE IF weight < minWeight THEN minWeight
         ELSE IF weight > 5 * One THEN 5 * One ELSE weight

\* addInterest: the keyword is set to the clamped weight and the profile
\* saved; nothing happens for an empty keyword or a weight that is no number
AddInterest(keyword, parsed) ==
    /\ view = "menu"
    /\ calls < MaxCalls
    /\ keyword # <<>>
    /\ ~parsed.err
    /\ calls' = calls + 1
    /\ Interests' = [k \in DOMAIN Interests \cup {ToLower(keyword)} |->
                        IF k = ToLower(keyword) THEN Clamp(parsed.weight) ELSE Interests[k]]
    /\ LastUpdated' = Stamp(LastUpdated, now)
    /\ last' = Op("addInterest")
    /\ UNCHANGED <<now, ReadArticles, items, view, scores, recommendations, scored, returned>>
    /\ SaveProfileCall(Interests', ReadArticles, LastUpdated')

\* removeInterest: the listed keyword is deleted and the profile saved
RemoveInterest(word) ==
    /\ view = "menu"
    /\ calls < MaxCalls
    /\ word \in DOMAIN Interests
    /\ calls' = calls + 1
    /\ Interests' = Restrict(Interests, DOMAIN Interests \ {word})
    /\ LastUpdated' = Stamp(LastUpdated, now)
    /\ last' = Op("removeInterest")
    /\ UNCHANGED <<now, ReadArticles, items, view, scores, recommendations, scored, returned>>
    /\ SaveProfileCall(Interests', ReadArticles, LastUpdated')

\* modifyInterest: the listed keyword is set to the clamped weight; nothing
\* happens for a weight that is no number
ModifyInterest(word, parsed) ==
    /\ view = "menu"
    /\ calls < MaxCalls
    /\ word \in DOMAIN Interests
    /\ ~parsed.err
    /\ calls' = calls + 1
    /\ Interests' = [Interests EXCEPT ![word] = Clamp(parsed.weight)]
    /\ last' = Op("modifyInterest")
    /\ UNCHANGED <<now, ReadArticles, LastUpdated, items, view, scores, recommendations,
                   scored, returned, outside>>

\* clearInterests, confirmed: the map is replaced by an empty one and the
\* profile saved
ClearInterests ==
    /\ view = "menu"
    /\ calls < MaxCalls
    /\ calls' = calls + 1
    /\ Interests' = ProfileEmpty
    /\ LastUpdated' = Stamp(LastUpdated, now)
    /\ last' = Op("clearInterests")
    /\ UNCHANGED <<now, ReadArticles, items, view, scores, recommendations, scored, returned>>
    /\ SaveProfileCall(Interests', ReadArticles, LastUpdated')

NextInterests ==
    \/ Tick
    \/ \E keyword \in TypedInterests, parsed \in ParsedWeights : AddInterest(keyword, parsed)
    \/ \E word \in DOMAIN Interests : RemoveInterest(word)
    \/ \E word \in DOMAIN Interests, parsed \in ParsedWeights : ModifyInterest(word, parsed)
    \/ ClearInterests
    \/ SaveProfile

\* the earlier reader in its interest menu, with a disk that may fail
SpecInterests == InitSave /\ [][NextInterests]_vars

----------------------------------------------------------------------------
(* The feed list of the App: manageFeeds *)

\* the most feeds the list is grown to
MaxFeeds == 3

\* A URL text is kept as the part before its first "://" (empty when the
\* text has none) and the part after it.
Url(scheme, rest) == [scheme |-> scheme, rest |-> rest]

\* the texts typed at the prompt "Enter feed URL: "
TypedURLs ==
    { Url("", "a.example/feed"), Url("https", "a.example/feed"),
      Url("HTTPS", "a.example/feed"), Url("http", "a.example/feed"),
      Url("ftp", "a.example/feed"), Url("", "b.example/rss") }

\* url.Parse puts the scheme in lower case
LowerScheme(scheme) ==
    CASE scheme = "HTTPS" -> "https"
      [] scheme = "HTTP" -> "http"
      [] OTHER -> scheme

\* normalizeURL: "https://" is put before a text without "://", the text is
\* parsed, a scheme other than http and https is an error, and the parsed
\* URL is written out again
normalizeURL(typed) ==
    LET scheme == IF typed.scheme = "" THEN "https" ELSE LowerScheme(typed.scheme)
    IN  [url |-> Url(scheme, typed.rest), err |-> scheme \notin {"http", "https"}]

\* the lists of feeds LoadFeeds may read from feeds.txt: no URL twice
StoredFeeds ==
    LET urls == { normalizeURL(typed).url : typed \in {t \in TypedURLs : ~normalizeURL(t).err} }
    IN  UNION { { list \in [1..n -> urls] : \A i, j \in 1..n : list[i] = list[j] => i = j } :
                n \in 0..(MaxFeeds - 1) }

\* the state after NewApp with a list of feeds from feeds.txt and a disk
\* that may fail
InitFeeds ==
    /\ now = MaxPast
    /\ Interests = ProfileKube
    /\ ReadArticles = {}
    /\ LastUpdated = now
    /\ items \in Batches
    /\ view = "menu"
    /\ scores = <<>>
    /\ recommendations = <<>>
    /\ scored = <<>>
    /\ last = Op("NewApp")
    /\ calls = 0
    /\ keywords = <<>>
    /\ sorted = <<>>
    /\ PagerInit
    /\ feeds \in StoredFeeds
    /\ StoreInit
    /\ faults \in 0..MaxFaults
    /\ refresh = RefreshIdle

\* the call store.SaveFeeds(list): any of its runs
SaveFeedsCall(list) ==
    \E run \in SaveFeedsRuns(files, list) :
        /\ run.err => faults > 0
        /\ faults' = IF run.err THEN faults - 1 ELSE faults
        /\ files' = run.files
        /\ saveFailed' = (saveFailed \/ run.err)

\* the loop over a.feeds that looks for the URL, as whether the command is
\* left in it: for an equal entry it shows an error and its `continue` goes
\* on with the next entry of this loop, as for an entry that differs
RECURSIVE RejectedAsDuplicate(_, _)
RejectedAsDuplicate(list, url) ==
    IF list = <<>>
    THEN FALSE
    ELSE IF Head(list) = url
         THEN RejectedAsDuplicate(Tail(list), url)
         ELSE RejectedAsDuplicate(Tail(list), url)

\* App.manageFeeds, command "add", with a text that normalizeURL accepts,
\* a feed that validateFeed accepts and a confirmed prompt: the URL is
\* appended and the list saved; the feeds are fetched again when asked for
ManageFeedsAdd(typed, fetch) ==
    /\ view = "menu"
    /\ Len(feeds) < MaxFeeds
    /\ ~normalizeURL(typed).err
    /\ ~RejectedAsDuplicate(feeds, normalizeURL(typed).url)
    /\ feeds' = Append(feeds, normalizeURL(typed).url)
    /\ SaveFeedsCall(feeds')
    /\ items' \in IF fetch THEN Batches ELSE {items}
    /\ last' = [Op("manageFeeds.add") EXCEPT !.text = typed]
    /\ UNCHANGED <<now, Interests, ReadArticles, LastUpdated, view, scores, recommendations,
                   scored, calls, returned, pager, saving, refresh>>

\* App.manageFeeds, command "remove", confirmed: the feed of the number
\* typed is cut out of the list and the list saved
ManageFeedsRemove(index) ==
    /\ view = "menu"
    /\ index \in 1..Len(feeds)
    /\ feeds' = SubSeq(feeds, 1, index - 1) \o SubSeq(feeds, index + 1, Len(feeds))
    /\ SaveFeedsCall(feeds')
    /\ last' = [Op("manageFeeds.remove") EXCEPT !.item = index]
    /\ UNCHANGED <<now, Interests, ReadArticles, LastUpdated, items, view, scores,
                   recommendations, scored, calls, returned, pager, saving, refresh>>

NextFeeds ==
    \/ \E typed \in TypedURLs, fetch \in BOOLEAN : ManageFeedsAdd(typed, fetch)
    \/ \E index \in 1..Len(feeds) : ManageFeedsRemove(index)

SpecFeeds == InitFeeds /\ [][NextFeeds]_vars

----------------------------------------------------------------------------
(* App.refreshFeeds: one goroutine per feed *)

\* the most items a feed delivers
MaxItems == 2

\* the i-th item of the feed fetched by goroutine g
FetchedItem(g, i) == FeedItem(<<"K","u","b","e">>, <<>>, <<g, i>>, i)

\* what parseFeed may return to goroutine g: nothing after an error, or the
\* items of the feed in the order of the feed
ParsedFeeds(g) == { [i \in 1..n |-> FetchedItem(g, i)] : n \in 0..MaxItems }

\* mu.Lock() that does not wait for the holder
CanLock_Always(holder) == TRUE

\* mu.Lock() returns only when no goroutine holds mu
CanLock(holder) == holder = 0

\* the goroutine of a feed before `go`
Unborn == [pc |-> "unborn", feed |-> <<>>, read |-> <<>>]

\* refreshFeeds is entered: wg, mu and items are declared
RefreshEnter ==
    /\ view = "menu"
    /\ refresh.pc = "idle"
    /\ refresh' = [pc |-> "loop", wg |-> 0, mu |-> 0, items |-> <<>>,
                   workers |-> [g \in 1..Len(feeds) |-> Unborn]]
    /\ last' = Op("refreshFeeds")
    /\ UNCHANGED <<now, Interests, ReadArticles, LastUpdated, items, view, scores,
                   recommendations, scored, calls, returned, pager, store, feeds>>

\* the steps below change the locals of refreshFeeds only
RefreshStep ==
    UNCHANGED <<now, Interests, ReadArticles, LastUpdated, items, view, scores,
                recommendations, scored, last, calls, returned, pager, store, feeds>>

\* the goroutines not started yet
UnbornWorkers == {g \in DOMAIN refresh.workers : refresh.workers[g].pc = "unborn"}

\* one turn of the loop over a.feeds: wg.Add(1) and go func(url)
RefreshSpawn ==
    /\ refresh.pc = "loop"
    /\ UnbornWorkers # {}
    /\ LET g == CHOOSE g \in UnbornWorkers : \A h \in UnbornWorkers : g <= h
       IN  refresh' = [refresh EXCEPT !.wg = @ + 1, !.workers[g].pc = "parse"]
    /\ RefreshStep

\* the loop over a.feeds is left
RefreshLoopEnd ==
    /\ refresh.pc = "loop"
    /\ UnbornWorkers = {}
    /\ refresh' = [refresh EXCEPT !.pc = "wait"]
    /\ RefreshStep

\* goroutine g: feed := parseFeed(url)
WorkerParse(g) ==
    /\ refresh.workers[g].pc = "parse"
    /\ \E feed \in ParsedFeeds(g) :
          refresh' = [refresh EXCEPT !.workers[g].pc = "lock", !.workers[g].feed = feed]
    /\ RefreshStep

\* goroutine g: mu.Lock()
WorkerLock(g) ==
    /\ refresh.workers[g].pc = "lock"
    /\ CanLock(refresh.mu)
    /\ refresh' = [refresh EXCEPT !.mu = g, !.workers[g].pc = "read"]
    /\ RefreshStep

\* goroutine g: append(items, feed...) reads the slice items
WorkerRead(g) ==
    /\ refresh.workers[g].pc = "read"
    /\ refresh' = [refresh EXCEPT !.workers[g].pc = "write", !.workers[g].read = refresh.items]
    /\ RefreshStep

\* goroutine g: items = the slice read with the feed appended
WorkerWrite(g) ==
    /\ refresh.workers[g].pc = "write"
    /\ refresh' = [refresh EXCEPT !.workers[g].pc = "unlock",
                                  !.items = refresh.workers[g].read \o refresh.workers[g].feed]
    /\ RefreshStep

\* goroutine g: mu.Unlock()
WorkerUnlock(g) ==
    /\ refresh.workers[g].pc = "unlock"
    /\ refresh' = [refresh EXCEPT !.mu = 0, !.workers[g].pc = "return"]
    /\ RefreshStep

\* goroutine g returns: the deferred wg.Done()
WorkerDone(g) ==
    /\ refresh.workers[g].pc = "return"
    /\ refresh' = [refresh EXCEPT !.wg = @ - 1, !.workers[g].pc = "done"]
    /\ RefreshStep

\* wg.Wait() returns when the counter is zero; then a.items = items
RefreshAssign ==
    /\ refresh.pc = "wait"
    /\ refresh.wg = 0
    /\ items' = refresh.items
    /\ refresh' = [refresh EXCEPT !.pc = "idle"]
    /\ UNCHANGED <<now, Interests, ReadArticles, LastUpdated, view, scores, recommendations,
                   scored, last, calls, returned, pager, store, feeds>>

\* the state after NewApp with the first feeds of the default list
InitRefresh ==
    /\ now = MaxPast
    /\ Interests = ProfileKube
    /\ ReadArticles = {}
    /\ LastUpdated = now
    /\ items = <<>>
    /\ view = "menu"
    /\ scores = <<>>
    /\ recommendations = <<>>
    /\ scored = <<>>
    /\ last = Op("NewApp")
    /\ calls = 0
    /\ keywords = <<>>
    /\ sorted = <<>>
    /\ PagerInit
    /\ \E n \in 0..(MaxFeeds - 1) : feeds = SubSeq(defaultFeeds, 1, n)
    /\ StoreInit
    /\ faults = 0
    /\ refresh = RefreshIdle

\* App.Run: the feeds are fetched once before the menu is shown
NextRefresh ==
    \/ last.op = "NewApp" /\ RefreshEnter
    \/ RefreshSpawn
    \/ RefreshLoopEnd
    \/ \E g \in DOMAIN refresh.workers :
          \/ WorkerParse(g)
          \/ WorkerLock(g)
          \/ WorkerRead(g)
          \/ WorkerWrite(g)
          \/ WorkerUnlock(g)
          \/ WorkerDone(g)
    \/ RefreshAssign

SpecRefresh == InitRefresh /\ [][NextRefresh]_vars

----------------------------------------------------------------------------
(* A profile.json written long ago, or with a LastUpdated ahead of the clock *)

\* the days since LastUpdated of a profile that was not used for long
MaxGap == 45

\* the days by which the LastUpdated of profile.json may be ahead of the
\* clock: LoadProfile takes the time as it finds it
MaxAhead == 1

\* the state after LoadProfile for a profile of few keywords and such a
\* LastUpdated
InitStored ==
    /\ now = MaxPast
    /\ Interests \in SmallProfiles
    /\ ReadArticles = {}
    /\ \E age \in (-MaxAhead)..MaxPast \cup {MaxGap} : LastUpdated = now - age
    /\ items \in Batches
    /\ view = "menu"
    /\ scores = <<>>
    /\ recommendations = <<>>
    /\ scored = <<>>
    /\ last = Op("NewApp")
    /\ calls = 0
    /\ keywords = <<>>
    /\ sorted = <<>>
    /\ OutsideInit

NextStored ==
    \/ Tick
    \/ \E text \in Texts : UpdateInterests(text)

SpecStored == InitStored /\ [][NextStored]_vars

----------------------------------------------------------------------------
(* Properties *)

\* the last operation called UpdateInterests
AfterUpdate == last.op \in {"UpdateInterests", "displayArticle"}

\* this step is a call of UpdateInterests, alone or from displayArticle
UpdateStep == calls' = calls + 1 /\ last'.op \in {"UpdateInterests", "displayArticle"}

\* C1: after any call of Update every weight that remains in Interests is at
\* least minWeight, and a keyword whose weight fell below minWeight in the
\* decay is no longer in the map.
C1_WeightsAtLeastMin ==
    AfterUpdate =>
        /\ \A k \in DOMAIN Interests : Interests[k] >= minWeight
        /\ \A k \in DOMAIN last.incremented :
              (last.incremented[k] \div IntPow(DecayDen, last.decayPeriods))
                  * IntPow(DecayNum, last.decayPeriods) < minWeight
              => k \notin DOMAIN Interests

\* an Update whose decay took a keyword below minWeight and removed it,
\* while another keyword stayed
C1_Witness ==
    /\ AfterUpdate
    /\ last.decayPeriods > 0
    /\ Rust \in DOMAIN last.before
    /\ Rust \notin DOMAIN Interests
    /\ kube \in DOMAIN Interests

\* C2: after any call of Update the number of keywords in Interests is at
\* most maxInterests.
C2_AtMostMaxInterests ==
    AfterUpdate => Cardinality(DOMAIN Interests) <= maxInterests

C4_NoReadItemRecommended ==
    \A i \in 1..Len(recommendations) : recommendations[i].Item.Link \notin ReadArticles

\* the position of an item in the batch
PositionOf(item) == CHOOSE i \in 1..Len(items) : items[i] = item

\* C5: the recommendations are in descending order of score, and items of
\* equal score are in the order they have in the batch.
C5_DescendingAndStable ==
    \A i, j \in 1..Len(recommendations) :
        i < j =>
            /\ recommendations[i].Score >= recommendations[j].Score
            /\ recommendations[i].Score = recommendations[j].Score
               => PositionOf(recommendations[i].Item) < PositionOf(recommendations[j].Item)

\* the lower-cased keyword occurs at some position of the lower-cased text of the item
Occurs(word, item) ==
    LET text == ToLower(ItemText(item))
        lower == ToLower(word)
    IN  \E pos \in 0..Len(text) :
            /\ pos + Len(lower) <= Len(text)
            /\ \A j \in 1..Len(lower) : text[pos + j] = lower[j]

Occurrences(word, words) == Cardinality({i \in 1..Len(words) : words[i] = word})

\* C8: before the decay, Update has added 1.0 to the weight of a keyword for
\* each of its occurrences in the extracted keywords, from 0 for a keyword
\* that was absent, and has changed no other weight.
C8_IncrementPerOccurrence ==
    AfterUpdate =>
        LET words == extractKeywords(last.text)
            extracted == {words[i] : i \in 1..Len(words)}
        IN  /\ DOMAIN last.incremented = DOMAIN last.before \cup extracted
            /\ \A k \in DOMAIN last.incremented :
                  last.incremented[k] =
                      (IF k \in DOMAIN last.before THEN last.before[k] ELSE 0)
                      + Occurrences(k, words) * One

\* an Update with a text that holds "kube" twice and "rust" once, "kube"
\* being in the profile before and "rust" not
C8_Witness ==
    /\ AfterUpdate
    /\ last.text = TextKube
    /\ kube \in DOMAIN last.before
    /\ rust \notin DOMAIN last.before
    /\ last.incremented[kube] = last.before[kube] + 2 * One
    /\ last.incremented[rust] = One

\* C9: Update multiplies every weight that stays in Interests by
\* decayFactor to the power of the days since LastUpdated; one keyword of
\* weight 1.0, last updated a day ago, is left at 0.95 by Update("").
C9_DecayByElapsedDays ==
    [][ UpdateStep =>
          LET days == now - LastUpdated
          IN  /\ \A k \in DOMAIN Interests' :
                    Interests'[k] = (last'.incremented[k] \div IntPow(DecayDen, days))
                                    * IntPow(DecayNum, days)
              /\ (Interests = ProfileKube /\ days = 1 /\ last'.text = TextEmpty)
                 => Interests' = [k \in {kube} |-> (One \div 100) * 95] ]_vars

\* Update("") a day after the last update of the profile {kube: 1.0}
C9_Witness ==
    /\ AfterUpdate
    /\ last.before = ProfileKube
    /\ last.text = TextEmpty
    /\ last.decayPeriods = 1
    /\ kube \in DOMAIN Interests

\* the weights and the size of a profile are within their limits
WithinLimits(m) ==
    /\ \A k \in DOMAIN m : m[k] >= minWeight
    /\ Cardinality(DOMAIN m) <= maxInterests

\* C10: Update("") with no time elapsed since LastUpdated leaves the
\* Interests of a profile within its limits as they are.
C10_EmptyUpdateIsIdentity ==
    [][ (UpdateStep /\ last'.text = TextEmpty /\ now = LastUpdated /\ WithinLimits(Interests))
        => Interests' = Interests ]_vars

\* a second Update("") with no time elapsed, on a profile that is not empty
C10_Witness ==
    /\ AfterUpdate
    /\ calls = 2
    /\ last.text = TextEmpty
    /\ last.decayPeriods = 0
    /\ last.before # <<>>
    /\ WithinLimits(last.before)
    /\ Interests = last.before

\* the weight that last.incremented[k] has after the multiplication by
\* decayFactor to the power of last.decayPeriods
DecayedWeight(k) ==
    (last.incremented[k] \div IntPow(DecayDen, last.decayPeriods))
        * IntPow(DecayNum, last.decayPeriods)

\* the keywords that the decay loop of the last Update did not delete
NotEvicted == {k \in DOMAIN last.incremented : DecayedWeight(k) >= minWeight}

\* those keywords with their weights after the decay
Decayed == [k \in NotEvicted |-> DecayedWeight(k)]

\* C11: the eviction of Update compares strictly.  A keyword whose weight
\* after the decay is exactly minWeight stays in Interests (when the trim
\* that follows does not run), and a keyword whose weight after the decay
\* is below minWeight is removed.
C11_EvictionIsStrict ==
    AfterUpdate =>
        /\ Cardinality(NotEvicted) <= maxInterests =>
              \A k \in DOMAIN last.incremented :
                  DecayedWeight(k) = minWeight
                  => (k \in DOMAIN Interests /\ Interests[k] = minWeight)
        /\ \A k \in DOMAIN last.incremented :
              DecayedWeight(k) < minWeight => k \notin DOMAIN Interests

\* an Update with no time elapsed on a profile that holds "Rust" at exactly
\* minWeight: the weight after the decay is minWeight and "Rust" is kept
C11_Witness ==
    /\ AfterUpdate
    /\ Rust \in DOMAIN last.before
    /\ last.before[Rust] = minWeight
    /\ DecayedWeight(Rust) = minWeight
    /\ Rust \in DOMAIN Interests

\* the element at index idx, counted from 0, of the ascending order of the
\* weights of m
WeightAt(m, idx) ==
    CHOOSE v \in {m[k] : k \in DOMAIN m} :
        /\ Cardinality({k \in DOMAIN m : m[k] < v}) <= idx
        /\ idx < Cardinality({k \in DOMAIN m : m[k] <= v})

\* no two keywords of m have the same weight
DistinctWeights(m) == Cardinality({m[k] : k \in DOMAIN m}) = Cardinality(DOMAIN m)

\* C12: when more than maxInterests keywords remain after the eviction,
\* Update removes exactly the keywords whose weight is strictly below the
\* element at index (count - maxInterests) of the ascending order of the
\* weights; when the weights are all distinct, exactly the maxInterests
\* keywords of highest weight remain.
C12_TrimBelowThreshold ==
    (AfterUpdate /\ Cardinality(NotEvicted) > maxInterests) =>
        LET m == Decayed
            threshold == WeightAt(m, Cardinality(DOMAIN m) - maxInterests)
        IN  /\ DOMAIN Interests = {k \in DOMAIN m : ~(m[k] < threshold)}
            /\ \A k \in DOMAIN Interests : Interests[k] = m[k]
            /\ DistinctWeights(m) =>
                  /\ Cardinality(DOMAIN Interests) = maxInterests
                  /\ \A k \in DOMAIN Interests :
                        \A j \in DOMAIN m \ DOMAIN Interests : m[j] < m[k]

\* an Update that left maxInterests + 1 keywords of distinct weights after
\* the eviction and removed the one of lowest weight
C12_Witness ==
    /\ AfterUpdate
    /\ Cardinality(NotEvicted) = maxInterests + 1
    /\ DistinctWeights(Decayed)
    /\ Cardinality(DOMAIN Interests) = maxInterests
    /\ BulkKey(1) \in NotEvicted \ DOMAIN Interests
    /\ wasm \in DOMAIN Interests

\* the trim of the last Update ran: more than maxInterests keywords were
\* left by the eviction
TrimRan == AfterUpdate /\ Cardinality(NotEvicted) > maxInterests

\* the weight at the index of the threshold is also the weight just below
\* that index: equal weights lie on both sides of the cut
TieAtBoundary ==
    LET m == Decayed
        idx == Cardinality(DOMAIN m) - maxInterests
    IN  WeightAt(m, idx) = WeightAt(m, idx - 1)

AfterExtract == last.op = "extractKeywords"

\* the places <<a, b>> of the whitespace-delimited tokens of s: s[a..b]
\* holds no space and has a space or an end of s on either side
TokenSpans(s) ==
    { sp \in (1..Len(s)) \X (1..Len(s)) :
        /\ sp[1] <= sp[2]
        /\ \A i \in sp[1]..sp[2] : ~IsSpace(s[i])
        /\ (sp[1] = 1 \/ IsSpace(s[sp[1] - 1]))
        /\ (sp[2] = Len(s) \/ IsSpace(s[sp[2] + 1])) }

\* C14: the tokens returned by extractKeywords are exactly the
\* whitespace-delimited tokens of the lower-cased text that have more than
\* 3 characters and are not stop words.
C14_ExtractFilters ==
    AfterExtract =>
        LET s == ToLower(last.text)
            tokens == {SubSeq(s, sp[1], sp[2]) : sp \in TokenSpans(s)}
        IN  {keywords[i] : i \in 1..Len(keywords)}
                = {t \in tokens : Len(t) > 3 /\ t \notin commonWords}

\* C15: extractKeywords returns the kept tokens in their order in the text,
\* a token as many times as it occurs in the text, and nothing for the
\* empty text.
C15_ExtractKeepsOrder ==
    AfterExtract =>
        LET s == ToLower(last.text)
            token(sp) == SubSeq(s, sp[1], sp[2])
            kept == {sp \in TokenSpans(s) : KeepWord(token(sp))}
            place(sp) == Cardinality({o \in kept : o[1] <= sp[1]})
        IN  /\ Len(keywords) = Cardinality(kept)
            /\ \A sp \in kept : keywords[place(sp)] = token(sp)
            /\ \A sp \in kept :
                  Occurrences(token(sp), keywords)
                      = Cardinality({o \in kept : token(o) = token(sp)})
            /\ last.text = <<>> => keywords = <<>>

\* extractKeywords("Kube kube"): the keyword is returned twice
C15_Witness ==
    /\ AfterExtract
    /\ last.text = <<"K","u","b","e"," ","k","u","b","e">>
    /\ keywords = <<kube, kube>>

\* the place of an article in the slice given to sortRecommendations
PlaceIn(articles, article) == CHOOSE i \in 1..Len(articles) : articles[i] = article

\* C16: sortRecommendations with SortByDate returns the articles of the
\* slice it was given, each once, in descending order of Published, the
\* articles of equal Published in the order they had in that slice, and
\* leaves that slice as it was.
C16_ByDateDescendingAndStable ==
    [][ (last'.op = "sortRecommendations" /\ last'.sortBy = SortByDate) =>
          /\ recommendations' = recommendations
          /\ sorted' \in Permutations(recommendations)
          /\ \A i, j \in 1..Len(sorted') :
                i < j =>
                    /\ sorted'[i].Item.Published >= sorted'[j].Item.Published
                    /\ sorted'[i].Item.Published = sorted'[j].Item.Published
                       => PlaceIn(recommendations, sorted'[i])
                              < PlaceIn(recommendations, sorted'[j]) ]_vars

\* C17: LastUpdated is the time of the last decay: a step that changes
\* LastUpdated is a call of Update.
C17_OnlyUpdateStamps ==
    [][ LastUpdated' # LastUpdated => UpdateStep ]_vars

\* C20: the answer "y" in the article view of the App applies Update to
\* the title, a space and the description of the article and adds the link
\* of the article to ReadArticles.
C20_YesUpdatesProfile ==
    [][ (last'.op = "App.displayArticle" /\ last' # last) =>
          LET item == items[last'.item]
          IN  /\ Interests' = UpdatedInterests(Interests, ItemText(item),
                                               DecayPeriods(LastUpdated, now))
              /\ item.Link \in ReadArticles' ]_vars

ScenarioUpdated ==
    /\ last.op = "UpdateInterests"
    /\ last.before = ProfileEmpty
    /\ last.text = TextKubernetes

\* the outcome of the scenario: three keywords of weight 1.0, and the
\* article on Kubernetes as the one recommendation, of score 1.0
ScenarioOutcome ==
    /\ Interests = [k \in {kubernetes, orchestration, patterns} |-> One]
    /\ view = "recommendations" =>
          recommendations = <<ArticleScore(ItemKubernetes, One)>>

InOrder(s, sortBy) == \A i, j \in 1..Len(s) : i < j => ~Less(sortBy, s[j], s[i])

\* this step is a key press that the recommendations view stays open after
RecommendationsStep == view = "recommendations" /\ view' = "recommendations"

\* C21: pressing 's' in the recommendations view toggles the order between
\* relevance and date: when the list on screen was in the one order and not
\* in the other, the list drawn after the key is in the other order
C21_SortKeyTogglesOrder ==
    [][ (RecommendationsStep /\ readKey(input') = Ascii.s) =>
          /\ (InOrder(sorted, SortByScore) /\ ~InOrder(sorted, SortByDate))
                => InOrder(sorted', SortByDate)
          /\ (InOrder(sorted, SortByDate) /\ ~InOrder(sorted, SortByScore))
                => InOrder(sorted', SortByScore) ]_vars

\* the length of the list the view on screen pages through
PagedLen == IF view = "searchResults" THEN Len(results) ELSE Len(sorted)

\* a paged view is on screen
Paged == view \in {"searchResults", "recommendations"}

\* C22: in the search results and in the recommendations, the bytes of the
\* right arrow move to the next page when there is one, and the bytes of the
\* left arrow move to the previous page when currentPage > 0
C22_ArrowsChangePage ==
    [][ Paged =>
          /\ (input' = ArrowRight /\ currentPage < TotalPages(PagedLen) - 1)
                => currentPage' = currentPage + 1
          /\ (input' = ArrowLeft /\ currentPage > 0)
                => currentPage' = currentPage - 1 ]_vars

\* C26: in both paged views, after any key press the page is within
\* 0..totalPages-1 and the cursor within the items of the page, and every
\* change of page puts the cursor on the first item
C26_PageAndCursorInRange ==
    [][ (Paged /\ Paged') =>
          /\ 0 <= currentPage' /\ currentPage' <= TotalPages(PagedLen') - 1
          /\ 0 <= selectedItem'
          /\ selectedItem' < PageEnd(currentPage', PagedLen') - PageStart(currentPage')
          /\ currentPage' # currentPage => selectedItem' = 0 ]_vars

\* C27: SaveProfile replaces profile.json atomically: at every point
\* profile.json holds a complete profile, the previous or the new one; when
\* SaveProfile has returned an error profile.json holds the previous
\* profile, and when it has returned nil the new one
C27_SaveIsAtomic ==
    /\ files[ProfilePath].kind = "profile"
    /\ saving.pc # "idle" =>
          /\ files[ProfilePath] \in {saving.previous, saving.data}
          /\ (saving.pc = "returned" /\ saving.err) => files[ProfilePath] = saving.previous
          /\ (saving.pc = "returned" /\ ~saving.err) => files[ProfilePath] = saving.data

\* the rename failed: the new profile is complete in profile.json.tmp,
\* profile.json holds the previous one and SaveProfile has returned an error
C27_Witness ==
    /\ saving.pc = "returned"
    /\ saving.err
    /\ files[TempPath] = saving.data
    /\ saving.data # saving.previous
    /\ files[ProfilePath] = saving.previous

\* C30: the weights set through manageInterests are within [0.1, 10.0]:
\* the profiles loaded here have such weights, and after any commands of
\* manageInterests every weight of the profile is a number of that range
C30_ManagedWeightsInRange ==
    \A k \in DOMAIN Interests :
        /\ Interests[k] # NaN
        /\ minWeight <= Interests[k]
        /\ Interests[k] <= 10 * One

\* C23: all changes to interests and feeds are saved automatically:
\* whenever a prompt is shown and no save has failed, the interests in
\* profile.json and the feeds in feeds.txt are those in memory
C23_ChangesAreSaved ==
    ~saveFailed =>
        /\ files[ProfilePath].Interests = Interests
        /\ files[FeedsPath].list = feeds

\* the URL is in the list
InList(list, url) == \E i \in 1..Len(list) : list[i] = url

\* C25: an add of a URL whose normalized form is already in the list leaves
\* the list as it is, and therefore a list that was read without duplicates
\* holds no URL twice after any adds and removes
C25_NoDuplicateFeeds ==
    [][ /\ (last'.op = "manageFeeds.add" /\ InList(feeds, normalizeURL(last'.text).url))
              => feeds' = feeds
        /\ \A i, j \in 1..Len(feeds') : feeds'[i] = feeds'[j] => i = j ]_vars

\* the items of the slice that goroutine g fetched, in the order of the slice
RECURSIVE ItemsOf(_, _)
ItemsOf(list, g) ==
    IF list = <<>>
    THEN <<>>
    ELSE (IF Head(list).Link[1] = g THEN <<Head(list)>> ELSE <<>>) \o ItemsOf(Tail(list), g)

\* refreshFeeds has assigned a.items
Refreshed == last.op = "refreshFeeds" /\ refresh.pc = "idle"

\* C24: under every interleaving of the goroutines, when refreshFeeds
\* assigns a.items every goroutine has finished, and a.items holds the items
\* of every feed, each once and in the order of its feed, and nothing else
C24_MergeIsComplete ==
    Refreshed =>
        /\ \A g \in DOMAIN refresh.workers :
              /\ refresh.workers[g].pc = "done"
              /\ ItemsOf(items, g) = refresh.workers[g].feed
        /\ \A i \in 1..Len(items) : items[i].Link[1] \in DOMAIN refresh.workers
        /\ \A i, j \in 1..Len(items) : items[i] = items[j] => i = j

\* two feeds of two items each were merged, the second feed first
C24_Witness ==
    /\ Refreshed
    /\ Len(feeds) = 2
    /\ items = <<FetchedItem(2, 1), FetchedItem(2, 2), FetchedItem(1, 1), FetchedItem(1, 2)>>

\* C28: the decay is applied after the increments of the same call: a
\* keyword that is not in the profile and is extracted n times ends the
\* call with n * decayMultiplier, and is not in the profile after the call
\* when that is below 0.1
C28_DecayAfterIncrement ==
    [][ UpdateStep =>
          LET days == now - LastUpdated
              words == extractKeywords(last'.text)
          IN  \A k \in {words[i] : i \in 1..Len(words)} \ DOMAIN Interests :
                LET weight == DecayWeight(Occurrences(k, words) * One, days)
                IN  /\ (days >= 0 /\ days <= MaxNow)
                          => weight = ((Occurrences(k, words) * One) \div IntPow(DecayDen, days))
                                      * IntPow(DecayNum, days)
                    /\ IF weight < minWeight
                       THEN k \notin DOMAIN Interests'
                       ELSE k \in DOMAIN Interests' /\ Interests'[k] = weight ]_vars

\* "Kube rust  kube" after MaxGap days on a profile without the two words:
\* kube, extracted twice, is in the profile and rust, extracted once, is not
C28_Witness ==
    /\ AfterUpdate
    /\ last.text = TextKube
    /\ last.decayPeriods = MaxGap
    /\ kube \notin DOMAIN last.before
    /\ rust \notin DOMAIN last.before
    /\ kube \in DOMAIN Interests
    /\ Interests[kube] < 2 * One
    /\ rust \notin DOMAIN Interests

\* C29: the decay only ever reduces: Update("") on any profile, one loaded
\* by LoadProfile included, adds no keyword and leaves no weight above its
\* value before the call
C29_DecayOnlyReduces ==
    [][ (UpdateStep /\ last'.text = TextEmpty) =>
          /\ DOMAIN Interests' \subseteq DOMAIN Interests
          /\ \A k \in DOMAIN Interests' : Interests'[k] <= Interests[k] ]_vars

====
